---- MODULE Spec2Model ----
(***************************************************************************)
(* Expression engine of the calculator (src/src/lib/engine.ts): tokenize,  *)
(* toRPN (shunting-yard) and the postfix evaluator behind evaluate().      *)
(*                                                                         *)
(* Text is a sequence of one-character strings.  A number is an exact      *)
(* rational with a sign (so that -0 exists), an infinity, NaN, or a term   *)
(* op(args) standing for the real number the operation yields when the     *)
(* model cannot write it as a rational within MaxExact (pi, sin(30), a     *)
(* product too large, ...).                                                *)
(***************************************************************************)
EXTENDS Integers, Sequences, FiniteSets, TLC

(* ------------------------------ bounds -------------------------------- *)
\* Largest numerator/denominator kept exactly; larger results become terms.
MaxExact == 1000000000
\* Longest input of each family, in keys (see the inputs below).
MaxArith == 4
MaxPostfix == 3
MaxCall == 3
MaxText == 4
\* Most operators (binary or unary minus) of a generated expression.
MaxOps == 2
\* Largest magnitude of an argument handed to factorial directly.
MaxArg == 175
\* calls of evaluate that have ended before the one that runs
MaxCalls == 2

(* ------------------------------ numbers ------------------------------- *)
RECURSIVE GCD(_, _)
GCD(a, b) == IF b = 0 THEN a ELSE GCD(b, a % b)

Val(k, s, n, d, op, args) ==
  [k |-> k, s |-> s, n |-> n, d |-> d, op |-> op, args |-> args]

\* the rational s*n/d in lowest terms
Q(s, n, d) ==
  LET g == GCD(n, d) IN Val("q", s, n \div g, d \div g, "", <<>>)
Num(n) == IF n < 0 THEN Q(-1, -n, 1) ELSE Q(1, n, 1)
Inf(s) == Val("inf", s, 0, 1, "", <<>>)
NaN == Val("nan", 1, 0, 1, "", <<>>)
Sym(op, args) == Val("sym", 1, 0, 1, op, args)

IsQ(v) == v.k = "q"
IsZero(v) == v.k = "q" /\ v.n = 0
IsInt(v) == v.k = "q" /\ v.d = 1
IsNaN(v) == v.k = "nan"
IsFinite(v) == v.k \in {"q", "sym"}

\* a*b fits within MaxExact
CanMul(a, b) == b = 0 \/ a <= MaxExact \div b

Neg(a) ==
  CASE a.k = "q" -> Val("q", -a.s, a.n, a.d, "", <<>>)
    [] a.k = "inf" -> Inf(-a.s)
    [] a.k = "nan" -> NaN
    [] OTHER -> Sym("neg", <<a>>)

Add(a, b) ==
  CASE a.k = "nan" \/ b.k = "nan" -> NaN
    [] a.k = "inf" /\ b.k = "inf" -> IF a.s = b.s THEN a ELSE NaN
    [] a.k = "inf" -> a
    [] b.k = "inf" -> b
    [] a.k = "q" /\ b.k = "q" ->
         IF CanMul(a.n, b.d) /\ CanMul(b.n, a.d) /\ CanMul(a.d, b.d)
            /\ a.n * b.d <= MaxExact - b.n * a.d
         THEN LET t == a.s * a.n * b.d + b.s * b.n * a.d
              IN IF t = 0
                 THEN Q(IF a.s = -1 /\ b.s = -1 THEN -1 ELSE 1, 0, 1)
                 ELSE Q(IF t < 0 THEN -1 ELSE 1, IF t < 0 THEN -t ELSE t, a.d * b.d)
         ELSE Sym("add", <<a, b>>)
    [] OTHER -> Sym("add", <<a, b>>)

Sub(a, b) ==
  IF a.k = "sym" \/ b.k = "sym"
  THEN (IF b.k = "nan" THEN NaN ELSE Sym("sub", <<a, b>>))
  ELSE Add(a, Neg(b))

Mul(a, b) ==
  CASE a.k = "nan" \/ b.k = "nan" -> NaN
    [] a.k = "sym" \/ b.k = "sym" -> Sym("mul", <<a, b>>)
    [] a.k = "inf" \/ b.k = "inf" ->
         IF IsZero(a) \/ IsZero(b) THEN NaN ELSE Inf(a.s * b.s)
    [] OTHER ->
         IF CanMul(a.n, b.n) /\ CanMul(a.d, b.d)
         THEN Q(a.s * b.s, a.n * b.n, a.d * b.d)
         ELSE Sym("mul", <<a, b>>)

Div(a, b) ==
  CASE a.k = "nan" \/ b.k = "nan" -> NaN
    [] a.k = "sym" \/ b.k = "sym" -> Sym("div", <<a, b>>)
    [] a.k = "inf" /\ b.k = "inf" -> NaN
    [] a.k = "inf" -> Inf(a.s * b.s)
    [] b.k = "inf" -> Q(a.s * b.s, 0, 1)
    [] b.n = 0 -> IF a.n = 0 THEN NaN ELSE Inf(a.s * b.s)
    [] OTHER ->
         IF CanMul(a.n, b.d) /\ CanMul(a.d, b.n)
         THEN Q(a.s * b.s, a.n * b.d, a.d * b.n)
         ELSE Sym("div", <<a, b>>)

\* a < b, a and b rationals whose cross products fit
LessQ(a, b) == a.s * a.n * b.d < b.s * b.n * a.d
Comparable(a, b) ==
  a.k = "q" /\ b.k = "q" /\ CanMul(a.n, b.d) /\ CanMul(b.n, a.d)

\* x^n for a natural n by repeated multiplication
RECURSIVE NatPow(_, _)
NatPow(x, n) ==
  IF n = 0 THEN Num(1)
  ELSE IF n % 2 = 0 THEN LET h == NatPow(x, n \div 2) IN Mul(h, h)
  ELSE Mul(x, NatPow(x, n - 1))

\* Math.pow(a, b)
Pow(a, b) ==
  CASE IsZero(b) -> Num(1)
    [] a.k = "nan" \/ b.k = "nan" -> NaN
    [] a.k = "sym" \/ b.k = "sym" -> Sym("pow", <<a, b>>)
    [] b.k = "inf" ->
         IF a.k = "inf" \/ a.n > a.d
         THEN (IF b.s = 1 THEN Inf(1) ELSE Num(0))
         ELSE IF a.n = a.d THEN NaN
         ELSE (IF b.s = 1 THEN Num(0) ELSE Inf(1))
    [] a.k = "inf" ->
         LET odd == b.d = 1 /\ b.n % 2 = 1
             s == IF a.s = -1 /\ odd THEN -1 ELSE 1
         IN IF b.s = 1 THEN Inf(s) ELSE Q(s, 0, 1)
    [] b.d = 1 ->
         IF b.n > 64 /\ ~(a.n = 0 \/ (a.n = 1 /\ a.d = 1))
         THEN Sym("pow", <<a, b>>)
         ELSE LET p == NatPow(a, IF b.n > 64 THEN 2 + (b.n % 2) ELSE b.n)
              IN IF p.k = "sym" THEN Sym("pow", <<a, b>>)
                 ELSE IF b.s = 1 THEN p ELSE Div(Num(1), p)
    [] OTHER ->
         IF a.n = 0 THEN (IF b.s = 1 THEN Num(0) ELSE Inf(1))
         ELSE IF a.s = -1 THEN NaN
         ELSE IF a.n = 1 /\ a.d = 1 THEN Num(1)
         ELSE Sym("pow", <<a, b>>)

\* a < b for numbers that are rationals or infinities
Lt(a, b) ==
  CASE a.k = "inf" /\ b.k = "inf" -> a.s < b.s
    [] a.k = "inf" -> a.s = -1
    [] b.k = "inf" -> b.s = 1
    [] OTHER -> LessQ(a, b)
Ordered(a, b) ==
  /\ a.k \in {"q", "inf"} /\ b.k \in {"q", "inf"}
  /\ (a.k = "q" /\ b.k = "q") => Comparable(a, b)

\* Math.min, Math.max
Min(a, b) ==
  CASE a.k = "nan" \/ b.k = "nan" -> NaN
    [] ~Ordered(a, b) -> Sym("min", <<a, b>>)
    [] Lt(a, b) -> a
    [] Lt(b, a) -> b
    [] OTHER -> IF a.s = -1 THEN a ELSE b
Max(a, b) ==
  CASE a.k = "nan" \/ b.k = "nan" -> NaN
    [] ~Ordered(a, b) -> Sym("max", <<a, b>>)
    [] Lt(a, b) -> b
    [] Lt(b, a) -> a
    [] OTHER -> IF a.s = 1 THEN a ELSE b

\* Math.abs
Abs(a) ==
  CASE a.k = "q" -> Val("q", 1, a.n, a.d, "", <<>>)
    [] a.k = "inf" -> Inf(1)
    [] a.k = "nan" -> NaN
    [] OTHER -> Sym("abs", <<a>>)

\* the natural r with r*r = n, or -1
Root(n) ==
  IF \E r \in 0..100 : r * r = n THEN CHOOSE r \in 0..100 : r * r = n ELSE -1

\* Math.sqrt
Sqrt(a) ==
  CASE a.k = "nan" -> NaN
    [] a.k = "inf" -> IF a.s = 1 THEN a ELSE NaN
    [] a.k = "q" /\ a.n = 0 -> a
    [] a.k = "q" /\ a.s = -1 -> NaN
    [] a.k = "q" /\ Root(a.n) >= 0 /\ Root(a.d) >= 0 -> Q(1, Root(a.n), Root(a.d))
    [] OTHER -> Sym("sqrt", <<a>>)

\* Math.log (op "ln") and Math.log10 (op "log")
Log(op, a) ==
  CASE a.k = "nan" -> NaN
    [] a.k = "inf" -> IF a.s = 1 THEN a ELSE NaN
    [] a.k = "q" /\ a.n = 0 -> Inf(-1)
    [] a.k = "q" /\ a.s = -1 -> NaN
    [] a.k = "q" /\ a.n = 1 /\ a.d = 1 -> Num(0)
    [] OTHER -> Sym(op, <<a>>)

\* Math.exp
Exp(a) ==
  CASE a.k = "nan" -> NaN
    [] a.k = "inf" -> IF a.s = 1 THEN a ELSE Num(0)
    [] a.k = "q" /\ a.n = 0 -> Num(1)
    [] OTHER -> Sym("exp", <<a>>)

\* Math.sin, Math.cos, Math.tan
Trig(op, a) ==
  CASE a.k = "nan" \/ a.k = "inf" -> NaN
    [] a.k = "q" /\ a.n = 0 -> IF op = "cos" THEN Num(1) ELSE a
    [] OTHER -> Sym(op, <<a>>)

\* Math.asin, Math.acos, Math.atan
ArcTrig(op, a) ==
  CASE a.k = "nan" -> NaN
    [] op # "atan" /\ (a.k = "inf" \/ (a.k = "q" /\ a.n > a.d)) -> NaN
    [] op # "acos" /\ a.k = "q" /\ a.n = 0 -> a
    [] op = "acos" /\ a.k = "q" /\ a.n = a.d /\ a.s = 1 -> Num(0)
    [] OTHER -> Sym(op, <<a>>)

PI == Sym("pi", <<>>)
E == Sym("e", <<>>)

(* ------------------------------ outcomes ------------------------------ *)
\* a call returns a number or throws an Error with a message
Ok(v) == [ok |-> TRUE, v |-> v, err |-> ""]
Err(m) == [ok |-> FALSE, v |-> NaN, err |-> m]

(* ------------------------------ factorial ----------------------------- *)
\* n < 0.  A term is negative when it is the negation of pi or e; the sign
\* of any other term is not known to the model and it is taken as not
\* negative.
IsNegative(n) ==
  CASE n.k = "q" -> n.s = -1 /\ n.n > 0
    [] n.k = "inf" -> n.s = -1
    [] n.k = "nan" -> FALSE
    [] OTHER -> n.op = "neg" /\ n.args[1].op \in {"pi", "e"}

\* Math.floor(n) !== n.  A term is taken as not whole.
NotWhole(n) ==
  CASE n.k = "q" -> n.d # 1
    [] n.k = "inf" -> FALSE
    [] OTHER -> TRUE

\* n > 170, for a whole n
TooLarge(n) == (n.k = "inf" /\ n.s = 1) \/ (n.k = "q" /\ n.s = 1 /\ n.n > 170)

\* a loop that stops one short: for (let i = 2; i < n; i++)
RECURSIVE FactLoopShort(_, _, _)
FactLoopShort(r, i, n) ==
  IF i >= n \/ r.k = "sym" THEN r ELSE FactLoopShort(Mul(r, Num(i)), i + 1, n)

\* let r = 1; for (let i = 2; i <= n; i++) r *= i; return r;
RECURSIVE FactLoop(_, _, _)
FactLoop(r, i, n) ==
  IF i > n \/ r.k = "sym" THEN r ELSE FactLoop(Mul(r, Num(i)), i + 1, n)

\* a factorial that checks for a whole number first
factorialWholeFirst(n) ==
  IF NotWhole(n) THEN Err("Factorial requires integer")
  ELSE IF IsNegative(n) THEN Err("Factorial of negative")
  ELSE IF TooLarge(n) THEN Err("n too large")
  ELSE LET r == FactLoop(Num(1), 2, n.n)
       IN Ok(IF r.k = "sym" THEN Sym("factorial", <<n>>) ELSE r)

factorial(n) ==
  IF IsNegative(n) THEN Err("Factorial of negative")
  ELSE IF NotWhole(n) THEN Err("Factorial requires integer")
  ELSE IF TooLarge(n) THEN Err("n too large")
  ELSE LET r == FactLoop(Num(1), 2, n.n)
       IN Ok(IF r.k = "sym" THEN Sym("factorial", <<n>>) ELSE r)

(* ------------------------------- text --------------------------------- *)
Digits == <<"0", "1", "2", "3", "4", "5", "6", "7", "8", "9">>
Lower == <<"a", "b", "c", "d", "e", "f", "g", "h", "i", "j", "k", "l", "m",
           "n", "o", "p", "q", "r", "s", "t", "u", "v", "w", "x", "y", "z">>
Upper == <<"A", "B", "C", "D", "E", "F", "G", "H", "I", "J", "K", "L", "M",
           "N", "O", "P", "Q", "R", "S", "T", "U", "V", "W", "X", "Y", "Z">>
Range(f) == {f[i] : i \in DOMAIN f}
IndexOf(f, c) == CHOOSE i \in DOMAIN f : f[i] = c

\* /[0-9]/.test(c) and /[a-z]/i.test(c); c is one character or "" (past the end)
isDigit(c) == c \in Range(Digits)
isAlpha(c) == c \in Range(Lower) \cup Range(Upper)

DigitValue(c) == IndexOf(Digits, c) - 1
toLowerCase(c) == IF c \in Range(Upper) THEN Lower[IndexOf(Upper, c)] ELSE c

\* s[i] ?? "" with the first character at index 1
At(s, i) == IF i \in 1..Len(s) THEN s[i] ELSE ""
\* s.slice(i, j) for the characters i .. j-1
Slice(s, i, j) == [x \in 1..(j - i) |-> s[i + x - 1]]

(* ------------------------------ tokens -------------------------------- *)
NumTok(v) == [type |-> "num", num |-> v, id |-> <<>>]
IdTok(name) == [type |-> "id", num |-> Num(0), id |-> name]
Tok(type) == [type |-> type, num |-> Num(0), id |-> <<>>]

\* the table ops of tokenize.  Its keys for the multiply and divide glyphs
\* are the two-character strings the source file holds (U+0E23 U+0097 and
\* U+0E23 U+0E17); a character other than ASCII is written by its code point.
ops ==
  [c \in {"+", "-", "*", "U+0E23 U+0097", "/", "U+0E23 U+0E17", "^",
          "(", ")", ",", "%", "!"} |->
     CASE c = "+" -> "plus" [] c = "-" -> "minus"
       [] c \in {"*", "U+0E23 U+0097"} -> "mul"
       [] c \in {"/", "U+0E23 U+0E17"} -> "div"
       [] c = "^" -> "pow" [] c = "(" -> "lparen" [] c = ")" -> "rparen"
       [] c = "," -> "comma" [] c = "%" -> "percent" [] c = "!" -> "bang"]

RECURSIVE SkipDigits(_, _)
SkipDigits(s, j) == IF isDigit(At(s, j)) THEN SkipDigits(s, j + 1) ELSE j
RECURSIVE SkipAlpha(_, _)
SkipAlpha(s, j) == IF isAlpha(At(s, j)) THEN SkipAlpha(s, j + 1) ELSE j

\* a literal whose exponent takes no sign
NumberEndUnsigned(s, i) ==
  LET j1 == SkipDigits(s, i)
      j2 == IF At(s, j1) = "." THEN SkipDigits(s, j1 + 1) ELSE j1
      k1 == j2 + 1
      k2 == SkipDigits(s, k1)
  IN IF At(s, j2) \in {"e", "E"} /\ k2 > k1 THEN k2 ELSE j2

\* the index after the numeric literal that starts at i
NumberEnd(s, i) ==
  LET j1 == SkipDigits(s, i)
      j2 == IF At(s, j1) = "." THEN SkipDigits(s, j1 + 1) ELSE j1
      k0 == j2 + 1
      k1 == IF At(s, k0) \in {"+", "-"} THEN k0 + 1 ELSE k0
      k2 == SkipDigits(s, k1)
  IN IF At(s, j2) \in {"e", "E"} /\ k2 > k1 THEN k2 ELSE j2

\* the value of the digits t[i .. j-1] read as a decimal integer
RECURSIVE DigitsValue(_, _, _, _)
DigitsValue(t, i, j, acc) ==
  IF i >= j THEN acc
  ELSE DigitsValue(t, i + 1, j, Add(Mul(acc, Num(10)), Num(DigitValue(t[i]))))

\* parseFloat of a literal tokenize has delimited: digits, an optional point
\* and digits, an optional exponent
parseFloat(t) ==
  LET p1 == SkipDigits(t, 1)
      p2 == IF At(t, p1) = "." THEN SkipDigits(t, p1 + 1) ELSE p1
      whole == DigitsValue(t, 1, p1, Num(0))
      frac == IF p2 > p1 + 1
              THEN Div(DigitsValue(t, p1 + 1, p2, Num(0)),
                       Pow(Num(10), Num(p2 - p1 - 1)))
              ELSE Num(0)
      mant == Add(whole, frac)
      k0 == p2 + 1
      k1 == IF At(t, k0) \in {"+", "-"} THEN k0 + 1 ELSE k0
      ex == DigitsValue(t, k1, Len(t) + 1, Num(0))
  IN IF At(t, p2) \in {"e", "E"}
     THEN Mul(mant, Pow(Num(10), IF At(t, k0) = "-" THEN Neg(ex) ELSE ex))
     ELSE mant

\* the scanning loop of tokenize: the raw tokens, or the error thrown
RECURSIVE Scan(_, _, _)
Scan(s, i, tokens) ==
  LET ch == At(s, i) IN
  IF i > Len(s) THEN [ok |-> TRUE, toks |-> tokens, err |-> ""]
  ELSE IF ch = " " \/ ch = "\t" THEN Scan(s, i + 1, tokens)
  ELSE IF isDigit(ch) \/ (ch = "." /\ isDigit(At(s, i + 1)))
  THEN LET j == NumberEnd(s, i)
       IN Scan(s, j, Append(tokens, NumTok(parseFloat(Slice(s, i, j)))))
  ELSE IF isAlpha(ch)
  THEN LET j == SkipAlpha(s, i + 1)
           name == [x \in 1..(j - i) |-> toLowerCase(s[i + x - 1])]
       IN Scan(s, j, Append(tokens, IdTok(name)))
  ELSE IF ch \in DOMAIN ops THEN Scan(s, i + 1, Append(tokens, Tok(ops[ch])))
  ELSE [ok |-> FALSE, toks |-> <<>>, err |-> "Unexpected '" \o ch \o "'"]

isValue(x) == x.type \in {"num", "rparen", "bang", "percent", "id"}

\* an insertion without the rule for an identifier before a number
InsertsMulTwoRules(t, next) ==
  \/ isValue(t) /\ next.type \in {"lparen", "id"}
  \/ t.type \in {"rparen", "bang", "percent"} /\ next.type \in {"num", "id", "lparen"}

\* an insertion between any value and whatever starts a value
InsertsMulAnyValue(t, next) ==
  isValue(t) /\ next.type \in {"num", "id", "lparen"}

\* whether tokenize pushes a mul after t, whose successor is next
InsertsMul(t, next) ==
  \/ isValue(t) /\ next.type \in {"lparen", "id"}
  \/ t.type \in {"rparen", "bang", "percent"} /\ next.type \in {"num", "id", "lparen"}
  \/ t.type = "id" /\ next.type = "num"

\* the second loop of tokenize, from index k on
RECURSIVE Implicit(_, _, _)
Implicit(tokens, k, out) ==
  IF k > Len(tokens) THEN out
  ELSE LET t == tokens[k]
           o == Append(out, t)
       IN Implicit(tokens, k + 1,
                   IF k < Len(tokens) /\ InsertsMul(t, tokens[k + 1])
                   THEN Append(o, Tok("mul")) ELSE o)

tokenize(s) ==
  LET raw == Scan(s, 1, <<>>)
  IN IF raw.ok THEN [raw EXCEPT !.toks = Implicit(raw.toks, 1, <<>>)] ELSE raw

(* ------------------------------- toRPN -------------------------------- *)
Operators == {"plus", "minus", "mul", "div", "pow", "u-"}

\* precedence[type] || 0
precedence(type) ==
  CASE type = "u-" -> 5
    [] type = "pow" -> 4
    [] type \in {"mul", "div"} -> 3
    [] type \in {"plus", "minus"} -> 2
    [] OTHER -> 0
rightAssoc(type) == type \in {"pow", "u-"}

\* the token types after which a minus is a unary minus
UnaryContext == {"plus", "minus", "mul", "div", "pow", "lparen", "comma"}

\* a marking in which a minus that follows a minus stays binary
MarkUnaryOnce(tokens) ==
  [idx \in 1..Len(tokens) |->
     IF tokens[idx].type = "minus"
        /\ (idx = 1 \/ tokens[idx - 1].type \in UnaryContext \ {"minus"})
     THEN Tok("u-") ELSE tokens[idx]]

\* tks: the tokens with each minus at the start or after an operator, a left
\* parenthesis or a comma turned into "u-"
MarkUnary(tokens) ==
  [idx \in 1..Len(tokens) |->
     IF tokens[idx].type = "minus"
        /\ (idx = 1 \/ tokens[idx - 1].type \in UnaryContext)
     THEN Tok("u-") ELSE tokens[idx]]

Top(stack) == stack[Len(stack)]
Pop(stack) == SubSeq(stack, 1, Len(stack) - 1)

\* an operator that never pops an operator of its own precedence
DominatesStrictly(t, top) == precedence(t.type) < precedence(top.type)

\* whether the operator t pops the operator top off the stack
Dominates(t, top) ==
  LET pt == precedence(t.type)
      ptop == precedence(top.type)
  IN (rightAssoc(t.type) /\ pt < ptop) \/ (~rightAssoc(t.type) /\ pt <= ptop)

\* the while loop run for an operator t: operators that dominate and
\* identifiers move from the stack to the output
RECURSIVE PopOperators(_, _, _)
PopOperators(out, stack, t) ==
  IF stack = <<>> THEN [out |-> out, stack |-> stack]
  ELSE IF (Top(stack).type \in Operators /\ Dominates(t, Top(stack)))
          \/ Top(stack).type = "id"
  THEN PopOperators(Append(out, Top(stack)), Pop(stack), t)
  ELSE [out |-> out, stack |-> stack]

\* the while loop of a right parenthesis or comma: pop to the output until a
\* left parenthesis is on top or the stack is empty
\* a pop that takes the left parenthesis off the stack as well
RECURSIVE PopThroughLeftParen(_, _)
PopThroughLeftParen(out, stack) ==
  IF stack = <<>> THEN [out |-> out, stack |-> stack]
  ELSE IF Top(stack).type = "lparen" THEN [out |-> out, stack |-> Pop(stack)]
  ELSE PopThroughLeftParen(Append(out, Top(stack)), Pop(stack))

RECURSIVE PopToLeftParen(_, _)
PopToLeftParen(out, stack) ==
  IF stack # <<>> /\ Top(stack).type # "lparen"
  THEN PopToLeftParen(Append(out, Top(stack)), Pop(stack))
  ELSE [out |-> out, stack |-> stack]

Rpn(out, stack, err) == [out |-> out, stack |-> stack, err |-> err]

\* one turn of the main loop of toRPN, for the token t
RpnToken(out, stack, t) ==
  CASE t.type = "num" -> Rpn(Append(out, t), stack, "")
    [] t.type = "id" -> Rpn(out, Append(stack, t), "")
    [] t.type \in Operators ->
         LET r == PopOperators(out, stack, t)
         IN Rpn(r.out, Append(r.stack, t), "")
    [] t.type = "lparen" -> Rpn(out, Append(stack, t), "")
    [] t.type = "rparen" ->
         LET r == PopToLeftParen(out, stack)
             rest == Pop(r.stack)
         IN IF r.stack = <<>> THEN Rpn(r.out, r.stack, "Mismatched parentheses")
            ELSE IF rest # <<>> /\ Top(rest).type = "id"
            THEN Rpn(Append(r.out, Top(rest)), Pop(rest), "")
            ELSE Rpn(r.out, rest, "")
    [] t.type = "comma" ->
         LET r == PopToLeftParen(out, stack)
         IN Rpn(r.out, r.stack,
                IF r.stack = <<>> THEN "Comma not inside function" ELSE "")
    [] t.type \in {"percent", "bang"} -> Rpn(Append(out, t), stack, "")
    [] OTHER -> Rpn(out, stack, "Bad token: " \o t.type)

\* a final loop that drops a parenthesis left on the stack
RpnFlushLenient(out, stack) ==
  IF Top(stack).type \in {"lparen", "rparen"}
  THEN Rpn(out, Pop(stack), "")
  ELSE Rpn(Append(out, Top(stack)), Pop(stack), "")

\* one turn of the final loop of toRPN, the stack not empty
RpnFlush(out, stack) ==
  IF Top(stack).type \in {"lparen", "rparen"}
  THEN Rpn(out, Pop(stack), "Mismatched parentheses")
  ELSE Rpn(Append(out, Top(stack)), Pop(stack), "")

RECURSIVE RpnMain(_, _, _, _)
RpnMain(tks, pos, out, stack) ==
  IF pos > Len(tks) THEN Rpn(out, stack, "")
  ELSE LET r == RpnToken(out, stack, tks[pos])
       IN IF r.err # "" THEN r ELSE RpnMain(tks, pos + 1, r.out, r.stack)

RECURSIVE RpnFinal(_, _)
RpnFinal(out, stack) ==
  IF stack = <<>> THEN Rpn(out, stack, "")
  ELSE LET r == RpnFlush(out, stack)
       IN IF r.err # "" THEN r ELSE RpnFinal(r.out, r.stack)

\* toRPN(tokens): the postfix sequence in out, or the error thrown in err
toRPN(tokens) ==
  LET m == RpnMain(MarkUnary(tokens), 1, <<>>, <<>>)
  IN IF m.err # "" THEN m ELSE RpnFinal(m.out, m.stack)

(* ------------------------------ evaluate ------------------------------ *)
Chars(n) ==
  CASE n = "sin" -> <<"s", "i", "n">> [] n = "cos" -> <<"c", "o", "s">>
    [] n = "tan" -> <<"t", "a", "n">> [] n = "asin" -> <<"a", "s", "i", "n">>
    [] n = "acos" -> <<"a", "c", "o", "s">> [] n = "atan" -> <<"a", "t", "a", "n">>
    [] n = "ln" -> <<"l", "n">> [] n = "log" -> <<"l", "o", "g">>
    [] n = "sqrt" -> <<"s", "q", "r", "t">> [] n = "exp" -> <<"e", "x", "p">>
    [] n = "abs" -> <<"a", "b", "s">> [] n = "pow" -> <<"p", "o", "w">>
    [] n = "min" -> <<"m", "i", "n">> [] n = "max" -> <<"m", "a", "x">>
    [] n = "pi" -> <<"p", "i">> [] n = "e" -> <<"e">>
    [] n = "constructor" ->
         <<"c", "o", "n", "s", "t", "r", "u", "c", "t", "o", "r">>

\* the keys of the object literals fn1 and fn2
Fn1Keys == {"sin", "cos", "tan", "asin", "acos", "atan", "ln", "log", "sqrt",
            "exp", "abs"}
Fn2Keys == {"pow", "min", "max"}
\* what a lookup obj[name] finds besides the object's own keys: the properties
\* of Object.prototype whose name an identifier token can hold (lowercase
\* letters only)
Inherited == {"constructor"}

\* the text of a sequence of characters
RECURSIVE Join(_)
Join(cs) == IF cs = <<>> THEN "" ELSE Head(cs) \o Join(Tail(cs))

Named(keys, name) == \E n \in keys : Chars(n) = name
KeyOf(keys, name) == CHOOSE n \in keys : Chars(n) = name

toRad(x, angleMode) == IF angleMode = "DEG" THEN Div(Mul(x, PI), Num(180)) ELSE x
fromRad(x, angleMode) == IF angleMode = "DEG" THEN Div(Mul(x, Num(180)), PI) ELSE x

\* fn1[name](x); the inherited constructor is Object, which boxes its argument
fn1(name, x, angleMode) ==
  LET n == KeyOf(Fn1Keys \cup Inherited, name)
  IN CASE n \in {"sin", "cos", "tan"} -> Trig(n, toRad(x, angleMode))
       [] n \in {"asin", "acos", "atan"} -> fromRad(ArcTrig(n, x), angleMode)
       [] n \in {"ln", "log"} -> Log(n, x)
       [] n = "sqrt" -> Sqrt(x)
       [] n = "exp" -> Exp(x)
       [] n = "abs" -> Abs(x)
       [] OTHER -> Sym("Object", <<x>>)

\* fn2[name](a, b)
fn2(name, a, b) ==
  LET n == KeyOf(Fn2Keys, name)
  IN CASE n = "pow" -> Pow(a, b)
       [] n = "min" -> Min(a, b)
       [] n = "max" -> Max(a, b)

Ev(stack, err) == [stack |-> stack, err |-> err]

\* a check that looks only at the value popped first
MissingFirst(stack, k) == Len(stack) < 1

\* a === undefined (|| b === undefined) after k pops: stack.pop() of an empty
\* stack is undefined
Missing(stack, k) == Len(stack) < k

\* one turn of the loop of evaluate, for the postfix token t.  b is the value
\* popped first, a the one popped second; an undefined operand counts as NaN
\* in arithmetic.
EvalToken(stack, t, angleMode) ==
  LET n == Len(stack)
      b == IF n >= 1 THEN stack[n] ELSE NaN
      a == IF n >= 2 THEN stack[n - 1] ELSE NaN
  IN CASE t.type = "num" -> Ev(Append(stack, t.num), "")
       [] t.type \in {"plus", "minus", "mul", "div", "pow"} ->
            IF Missing(stack, 2) THEN Ev(<<>>, "Arity error")
            ELSE Ev(Append(Pop(Pop(stack)),
                           CASE t.type = "plus" -> Add(a, b)
                             [] t.type = "minus" -> Sub(a, b)
                             [] t.type = "mul" -> Mul(a, b)
                             [] t.type = "div" -> Div(a, b)
                             [] t.type = "pow" -> Pow(a, b)), "")
       [] t.type = "u-" ->
            IF Missing(stack, 1) THEN Ev(<<>>, "Arity error")
            ELSE Ev(Append(Pop(stack), Neg(b)), "")
       [] t.type = "id" ->
            IF t.id = Chars("pi") THEN Ev(Append(stack, PI), "")
            ELSE IF t.id = Chars("e") THEN Ev(Append(stack, E), "")
            ELSE IF Named(Fn1Keys \cup Inherited, t.id)
            THEN (IF Missing(stack, 1) THEN Ev(<<>>, "Arity error")
                  ELSE Ev(Append(Pop(stack), fn1(t.id, b, angleMode)), ""))
            ELSE IF Named(Fn2Keys, t.id)
            THEN (IF Missing(stack, 2) THEN Ev(<<>>, "Arity error")
                  ELSE Ev(Append(Pop(Pop(stack)), fn2(t.id, a, b)), ""))
            ELSE Ev(stack, "Unknown id: " \o Join(t.id))
       [] t.type = "percent" ->
            IF Missing(stack, 1) THEN Ev(<<>>, "Arity error")
            ELSE Ev(Append(Pop(stack), Div(b, Num(100))), "")
       [] t.type = "bang" ->
            IF Missing(stack, 1) THEN Ev(<<>>, "Arity error")
            ELSE LET f == factorial(b)
                 IN IF f.ok THEN Ev(Append(Pop(stack), f.v), "")
                    ELSE Ev(Pop(stack), f.err)
       [] OTHER -> Ev(stack, "Bad RPN token")

RECURSIVE EvalAll(_, _, _, _)
EvalAll(rpn, pos, stack, angleMode) ==
  IF pos > Len(rpn) THEN Ev(stack, "")
  ELSE LET r == EvalToken(stack, rpn[pos], angleMode)
       IN IF r.err # "" THEN r ELSE EvalAll(rpn, pos + 1, r.stack, angleMode)

\* a return of stack[0] whenever there is one
ResultFirst(stack) == IF Len(stack) < 1 THEN Err("Invalid expression") ELSE Ok(stack[1])

\* if (stack.length !== 1) throw new Error("Invalid expression"); return stack[0]
Result(stack) == IF Len(stack) # 1 THEN Err("Invalid expression") ELSE Ok(stack[1])

\* evaluate(expr, angleMode): the number returned or the Error thrown
evaluate(expr, angleMode) ==
  LET toks == tokenize(expr)
      rpn == toRPN(toks.toks)
      ev == EvalAll(rpn.out, 1, <<>>, angleMode)
  IN IF ~toks.ok THEN Err(toks.err)
     ELSE IF rpn.err # "" THEN Err(rpn.err)
     ELSE IF ev.err # "" THEN Err(ev.err)
     ELSE Result(ev.stack)

(* ------------------------------- inputs ------------------------------- *)
\* the texts made of at most n keys of K; a key is a sequence of characters
RECURSIVE Texts(_, _)
Texts(K, n) ==
  IF n = 0 THEN {<<>>}
  ELSE LET T == Texts(K, n - 1) IN T \cup {t \o k : t \in T, k \in K}

Key(c) == <<c>>
\* arithmetic: literals, the five binary operators, minus, parentheses
ArithKeys == {Key(c) : c \in {"2", "3", "+", "-", "*", "/", "^", "(", ")"}}
\* postfix operators on literals (whole or with a fraction) and parentheses
PostfixKeys == {Key(c) : c \in {"1", "7", ".", "-", "*", "!", "%", "(", ")"}}
\* identifiers: constants, functions, names outside the tables
CallKeys ==
  {Chars(n) : n \in {"sin", "max", "pi", "e", "constructor"}}
    \cup {Key(c) : c \in {"x", "(", ")", ",", "2", "-", "%"}}
\* characters: blanks, points, exponents, letters in both cases, a character
\* outside the table
TextKeys ==
  {Key(c) : c \in {"1", ".", " ", "e", "A", "(", ")", "!", "%", "#", "-"}}

\* the well-formed arithmetic expressions with exactly n operators over the
\* literals D: a literal; a op b; -a; an operand that has an operator may
\* stand in parentheses
BinaryChars == {"+", "-", "*", "/", "^"}
Wrapped(S) == {<<"(">> \o x \o <<")">> : x \in S}
\* f[i + 1] holds the expressions of exactly i operators
Operand(f, i) == IF i = 0 THEN f[1] ELSE f[i + 1] \cup Wrapped(f[i + 1])
MoreFormed(f) ==
  LET n == Len(f)
  IN Append(f,
       UNION {{a \o Key(op) \o b :
                 a \in Operand(f, i), b \in Operand(f, n - 1 - i), op \in BinaryChars}
              : i \in 0..(n - 1)}
         \cup {Key("-") \o a : a \in Operand(f, n - 1)})
RECURSIVE FormedLevels(_, _)
FormedLevels(D, n) ==
  IF n = 0 THEN <<{Key(d) : d \in D}>> ELSE MoreFormed(FormedLevels(D, n - 1))
Formed(D, n) == FormedLevels(D, n)[n + 1]
AllOperands(f) == UNION {Operand(f, i) : i \in 0..(Len(f) - 1)}
FormedUpTo(D, n) == AllOperands(FormedLevels(D, n))

\* calls name(args) of every function of the tables, the arguments well-formed
Call1(n, a) == Chars(n) \o <<"(">> \o a \o <<")">>
Call2(n, a, b) == Chars(n) \o <<"(">> \o a \o <<",">> \o b \o <<")">>
Args == FormedUpTo({"2", "3"}, 1)
CallForms ==
  {Call1(n, a) : n \in Fn1Keys, a \in Args}
    \cup {Call2(n, a, b) : n \in Fn2Keys, a \in Formed({"2", "3"}, 0), b \in Args}
    \cup {Chars(n) : n \in Fn1Keys \cup Fn2Keys}

\* a postfix operator after an operand X, a literal or an expression in
\* parentheses, with or without a binary operator pending
Literals ==
  {<<"0">>, <<"1">>, <<"5">>, <<"1", "2">>, <<"1", "3">>, <<"5", "0">>,
   <<"1", "7", "0">>, <<"1", "7", "1">>, <<"1", ".", "5">>, <<".", "5">>}
PostfixOperands ==
  Literals \cup {<<"(">> \o e \o <<")">> : e \in FormedUpTo({"1", "3"}, 1)}
Pending == {<<>>} \cup {<<"2", op>> : op \in BinaryChars}
PostfixForms ==
  {p \o x \o Key(q) : p \in Pending \cup {<<"-">>}, x \in PostfixOperands, q \in {"!", "%"}}

\* a postfix operator after a constant, with or without a binary operator
\* pending
ConstantForms ==
  {p \o Chars(c) \o Key(q) : p \in Pending, c \in {"pi", "e"}, q \in {"!", "%"}}

\* the arguments of a direct call of factorial: whole numbers and halves of
\* either sign, the infinities, NaN
FactorialArgs ==
  {Q(s, n, d) : s \in {1, -1}, n \in 0..MaxArg, d \in {1, 2}}
    \cup {Inf(1), Inf(-1), NaN}

(* --------------------- Number.prototype.toString ---------------------- *)
\* the decimal digits of a natural m
RECURSIVE DigitsOf(_)
DigitsOf(m) ==
  IF m < 10 THEN <<Digits[m + 1]>>
  ELSE Append(DigitsOf(m \div 10), Digits[(m % 10) + 1])
Zeros(c) == [i \in 1..c |-> "0"]

\* the least p with d a divisor of 10^p, from p on; -1 when there is none
\* among the powers of ten that are kept exactly
RECURSIVE DecimalPlaces(_, _)
DecimalPlaces(d, p) ==
  IF (10^p) % d = 0 THEN p
  ELSE IF 10^p > MaxExact \div 10 THEN -1
  ELSE DecimalPlaces(d, p + 1)

\* the numbers whose decimal expansion ends and is kept exactly
Printable(v) ==
  /\ v.k = "q"
  /\ v.n = 0 \/ (DecimalPlaces(v.d, 0) >= 0
                  /\ CanMul(v.n, (10^DecimalPlaces(v.d, 0)) \div v.d))

\* the number of zeros that end the decimal digits of m > 0
RECURSIVE TrailingZeros(_)
TrailingZeros(m) == IF m % 10 = 0 THEN 1 + TrailingZeros(m \div 10) ELSE 0

\* x.toString() for a finite x: digits s (k of them, no zero at the end) and
\* n with x = s * 10^(n-k); plain digits for k <= n <= 21, a point inside
\* for 0 < n <= 21, "0." and zeros for -6 < n <= 0, else an exponent
toString(v) ==
  IF v.n = 0 THEN <<"0">>
  ELSE
    LET p == DecimalPlaces(v.d, 0)
        m == v.n * ((10^p) \div v.d)
        t == TrailingZeros(m)
        digits == DigitsOf(m \div (10^t))
        k == Len(digits)
        n == k + t - p
        sign == IF v.s = -1 THEN <<"-">> ELSE <<>>
        e == n - 1
        exponent == <<"e", IF e < 0 THEN "-" ELSE "+">> \o DigitsOf(IF e < 0 THEN -e ELSE e)
    IN sign \o
       (CASE k <= n /\ n <= 21 -> digits \o Zeros(n - k)
          [] 0 < n /\ n <= 21 -> SubSeq(digits, 1, n) \o <<".">> \o SubSeq(digits, n + 1, k)
          [] -6 < n /\ n <= 0 -> <<"0", ".">> \o Zeros(-n) \o digits
          [] k = 1 -> digits \o exponent
          [] OTHER -> <<digits[1], ".">> \o SubSeq(digits, 2, k) \o exponent)

(* ------------------------------ the machine --------------------------- *)
\* A call evaluate(expr, angleMode) in steps: tokenize, then one turn of a
\* loop of toRPN or of evaluate per step.
VARIABLES
  expr,       \* the text handed to evaluate
  angleMode,  \* "DEG" or "RAD"
  pc,         \* "start", "rpn" (main loop), "flush" (final loop), "eval",
              \* "done" (returned), "error" (thrown), "call" (factorial called)
  tokens,     \* what tokenize returned
  tks,        \* toRPN: the tokens with unary minus marked
  pos,        \* the index of the next token of the running loop
  out,        \* toRPN: the output; in evaluate: rpn
  stack,      \* toRPN: the operator stack
  vals,       \* evaluate: the value stack
  arg,        \* the argument of a direct call factorial(arg)
  result,     \* the number returned or the error thrown
  calls,      \* the calls of evaluate that have ended, oldest first
  state,      \* ScientificCalculator: the CalculatorState
  undoStack,  \* ScientificCalculator: the states undo returns to
  redoStack,  \* ScientificCalculator: the states redo returns to
  storage,    \* localStorage: the item under STORAGE_KEY
  presses,    \* the keys pressed and reloads made so far
  keys        \* the keys this user presses

app == <<state, undoStack, redoStack, storage, presses, keys>>
vars == <<expr, angleMode, pc, tokens, tks, pos, out, stack, vals, arg, result,
          calls, app>>

\* string | null, for a text of characters and for an error message
NoText == [is |-> "null", s |-> <<>>]
Text(s) == [is |-> "string", s |-> s]
NoError == [is |-> "null", s |-> ""]
Message(m) == [is |-> "string", s |-> m]

DEFAULT_STATE ==
  [displayValue |-> <<"0">>, formula |-> <<"0">>, history |-> NoText,
   error |-> NoError, fragments |-> <<>>]

\* localStorage.getItem(STORAGE_KEY): null, a text JSON.parse rejects, or
\* the JSON text of a value with the three members
Stored(kind, st, undo, redo) ==
  [kind |-> kind, state |-> st, undoStack |-> undo, redoStack |-> redo]
Absent == Stored("null", DEFAULT_STATE, <<>>, <<>>)

\* no calculator is mounted
NoApp ==
  /\ state = DEFAULT_STATE /\ undoStack = <<>> /\ redoStack = <<>>
  /\ storage = Absent
  /\ presses = 0
  /\ keys = {}

None == [ok |-> FALSE, v |-> NaN, err |-> ""]

InitOn(texts, modes) ==
  /\ expr \in texts
  /\ angleMode \in modes
  /\ pc = "start"
  /\ tokens = <<>> /\ tks = <<>> /\ pos = 1
  /\ out = <<>> /\ stack = <<>> /\ vals = <<>>
  /\ arg = NaN
  /\ result = None
  /\ calls = <<>>
  /\ NoApp

Throw(m) == pc' = "error" /\ result' = Err(m)

\* const rpn = toRPN(tokenize(expr)), as far as the entry of toRPN
Tokenize ==
  /\ pc = "start"
  /\ \E r \in {tokenize(expr)} :
        IF r.ok
        THEN /\ tokens' = r.toks
             /\ tks' = MarkUnary(r.toks)
             /\ pc' = "rpn"
             /\ UNCHANGED result
        ELSE /\ Throw(r.err)
             /\ UNCHANGED <<tokens, tks>>
  /\ UNCHANGED <<expr, angleMode, pos, out, stack, vals, arg, calls, app>>

\* for (const t of tks) { ... }
RpnStep ==
  /\ pc = "rpn"
  /\ IF pos <= Len(tks)
     THEN \E r \in {RpnToken(out, stack, tks[pos])} :
             IF r.err # ""
             THEN Throw(r.err) /\ UNCHANGED <<pos, out, stack>>
             ELSE /\ out' = r.out /\ stack' = r.stack /\ pos' = pos + 1
                  /\ UNCHANGED <<pc, result>>
     ELSE pc' = "flush" /\ UNCHANGED <<pos, out, stack, result>>
  /\ UNCHANGED <<expr, angleMode, tokens, tks, vals, arg, calls, app>>

\* while (stack.length) { ... } return out; and the entry of evaluate's loop
RpnFlushStep ==
  /\ pc = "flush"
  /\ IF stack # <<>>
     THEN \E r \in {RpnFlush(out, stack)} :
             IF r.err # ""
             THEN Throw(r.err) /\ UNCHANGED <<pos, out, stack>>
             ELSE /\ out' = r.out /\ stack' = r.stack
                  /\ UNCHANGED <<pc, pos, result>>
     ELSE pc' = "eval" /\ pos' = 1 /\ UNCHANGED <<out, stack, result>>
  /\ UNCHANGED <<expr, angleMode, tokens, tks, vals, arg, calls, app>>

\* for (const t of rpn) { ... }
EvalStep ==
  /\ pc = "eval"
  /\ pos <= Len(out)
  /\ \E r \in {EvalToken(vals, out[pos], angleMode)} :
        IF r.err # ""
        THEN Throw(r.err) /\ UNCHANGED <<pos, vals>>
        ELSE vals' = r.stack /\ pos' = pos + 1 /\ UNCHANGED <<pc, result>>
  /\ UNCHANGED <<expr, angleMode, tokens, tks, out, stack, arg, calls, app>>

\* if (stack.length !== 1) throw ...; return stack[0]
Return ==
  /\ pc = "eval"
  /\ pos > Len(out)
  /\ \E r \in {Result(vals)} :
       result' = r /\ pc' = IF r.ok THEN "done" ELSE "error"
  /\ UNCHANGED <<expr, angleMode, tokens, tks, pos, out, stack, vals, arg, calls, app>>

Next == Tokenize \/ RpnStep \/ RpnFlushStep \/ EvalStep \/ Return

\* evaluate(expr, angleMode) as one step
Evaluate ==
  /\ pc = "start"
  /\ \E r \in {evaluate(expr, angleMode)} :
       result' = r /\ pc' = IF r.ok THEN "done" ELSE "error"
  /\ UNCHANGED <<expr, angleMode, tokens, tks, pos, out, stack, vals, arg, calls, app>>

\* a direct call factorial(arg)
InitFactorial ==
  /\ arg \in FactorialArgs
  /\ pc = "call"
  /\ expr = <<>> /\ angleMode = "DEG"
  /\ tokens = <<>> /\ tks = <<>> /\ pos = 1
  /\ out = <<>> /\ stack = <<>> /\ vals = <<>>
  /\ result = None
  /\ calls = <<>>
  /\ NoApp

CallFactorial ==
  /\ pc = "call"
  /\ result' = factorial(arg)
  /\ pc' = IF factorial(arg).ok THEN "done" ELSE "error"
  /\ UNCHANGED <<expr, angleMode, tokens, tks, pos, out, stack, vals, arg, calls, app>>

\* the texts of a session of calls: values, a call that uses the angle
\* mode, texts that throw in tokenize, in toRPN and in evaluate
SessionTexts ==
  {<<"2">>, <<"2", "+", "3">>, <<"(", "1", ",", "3", "s", "i", "n", ")">>,
   <<"2", "+">>, <<")">>, <<"#">>}

\* a value stack that outlives the call
NewStackKept(previous) == previous
\* const stack: number[] = [], whatever the stack of the previous call held
NewStack(previous) == <<>>

\* the call has ended and evaluate is called again: its locals are new
CallAgain ==
  /\ pc \in {"done", "error"}
  /\ Len(calls) < MaxCalls
  /\ calls' = Append(calls, [expr |-> expr, angleMode |-> angleMode, result |-> result])
  /\ expr' \in SessionTexts
  /\ angleMode' \in {"DEG", "RAD"}
  /\ pc' = "start"
  /\ tokens' = <<>> /\ tks' = <<>> /\ pos' = 1
  /\ out' = <<>> /\ stack' = <<>> /\ vals' = NewStack(vals)
  /\ result' = None
  /\ UNCHANGED <<arg, app>>

NextSession ==
  Tokenize \/ RpnStep \/ RpnFlushStep \/ EvalStep \/ Return \/ CallAgain

InitSession == InitOn(SessionTexts, {"DEG", "RAD"})
\* the literals of the round trip: zero of either sign, whole numbers,
\* fractions, numbers below 1e-6 (which toString writes with an exponent)
RoundTripTexts ==
  {<<"0">>, <<"-", "0">>, <<"2", "5", "6">>, <<"1", "0", "0">>, <<"1", ".", "5", "0">>,
   <<".", "2", "5">>, <<"1", "/", "8">>, <<"5", "^", "-", "9">>, <<"1", "e", "3">>,
   <<"0", ".", "0", "0", "0", "0", "0", "1">>,
   <<"0", ".", "0", "0", "0", "0", "0", "0", "1">>,
   <<"-", "0", ".", "0", "0", "0", "0", "0", "0", "1", "5">>,
   <<"2", "/", "3">>, <<"1", "/", "0">>, <<"2", "+">>}

\* handleEquals on a displayed result: result.toString() is the formula
\* the next '=' hands to evaluate
FeedBack ==
  /\ pc = "done"
  /\ Len(calls) < MaxCalls
  /\ IsFinite(result.v) /\ Printable(result.v)
  /\ calls' = Append(calls, [expr |-> expr, angleMode |-> angleMode, result |-> result])
  /\ expr' = toString(result.v)
  /\ pc' = "start"
  /\ result' = None
  /\ UNCHANGED <<angleMode, tokens, tks, pos, out, stack, vals, arg, app>>

NextRoundTrip == Evaluate \/ FeedBack

InitArith == InitOn(Texts(ArithKeys, MaxArith), {"DEG"})
InitPostfix == InitOn(Texts(PostfixKeys, MaxPostfix), {"DEG"})
InitCall == InitOn(Texts(CallKeys, MaxCall), {"DEG", "RAD"})
InitText == InitOn(Texts(TextKeys, MaxText), {"DEG"})
Init == InitArith \/ InitPostfix \/ InitCall
\* single characters: the ten of the table ops, the multiply and divide
\* glyphs, blank and tab, a character outside the table, a digit
MaxGlyph == 3
GlyphKeys ==
  {Key(c) : c \in {"+", "-", "*", "/", "^", "(", ")", ",", "%", "!",
                   "U+00D7", "U+00F7", " ", "\t", "#", "2"}}
InitGlyph == InitOn(Texts(GlyphKeys, MaxGlyph), {"DEG"})
\* evaluate is called on a well-formed expression of at most n operators,
\* n >= 1: the operands of its last operator have fewer
InitFormed(D, n) ==
  \E f \in {FormedLevels(D, n - 1)} :
    \/ \E i \in 0..(n - 1), op \in BinaryChars :
         \E a \in Operand(f, i), b \in Operand(f, n - 1 - i) :
           InitOn({a \o Key(op) \o b, <<"(">> \o a \o Key(op) \o b \o <<")">>}, {"DEG"})
    \/ \E a \in Operand(f, n - 1) :
         InitOn({Key("-") \o a, <<"(", "-">> \o a \o <<")">>}, {"DEG"})
    \/ InitOn(AllOperands(f), {"DEG"})
InitRoundTrip ==
  \/ InitFormed({"2", "5"}, MaxOps)
  \/ InitOn(RoundTripTexts, {"DEG"})
InitForms ==
  \/ InitFormed({"2", "3"}, MaxOps)
  \/ InitOn(PostfixForms, {"DEG"})
  \/ InitOn(ConstantForms, {"DEG"})
  \/ InitOn(CallForms, {"DEG", "RAD"})

\* evaluate in steps, on every text of a family of keys
SpecArith == InitArith /\ [][Next]_vars
SpecGlyph == InitGlyph /\ [][Next]_vars
SpecCall == InitCall /\ [][Next]_vars
SpecText == InitText /\ [][Next]_vars
Spec == Init /\ [][Next]_vars
\* evaluate as one step, on the generated expressions
SpecForms == InitForms /\ [][Evaluate]_vars
\* one call of evaluate after another
SpecSession == InitSession /\ [][NextSession]_vars
\* a result fed back to evaluate as a text
SpecRoundTrip == InitRoundTrip /\ [][NextRoundTrip]_vars
\* factorial alone
SpecFactorial == InitFactorial /\ [][CallFactorial]_vars

(* ------------------------ ScientificCalculator ------------------------ *)
MAX_HISTORY == 50

\* a key with a value: what it appends to the display and to the formula
\* (key.displayValue ?? key.label, key.value ?? that)
Fragment(display, formula) == [display |-> display, formula |-> formula]
KeyFragment(label) ==
  CASE label = "1" -> Fragment(<<"1">>, <<"1">>)
    [] label = "2" -> Fragment(<<"2">>, <<"2">>)
    [] label = "0" -> Fragment(<<"0">>, <<"0">>)
    [] label = "." -> Fragment(<<".">>, <<".">>)
    [] label = "+" -> Fragment(<<"+">>, <<"+">>)
    [] label = "U+2212" -> Fragment(<<"U+2212">>, <<"-">>)
    [] label = "U+00D7" -> Fragment(<<"U+00D7">>, <<"*">>)
    [] label = "U+00F7" -> Fragment(<<"U+00F7">>, <<"/">>)
    [] label = "x!" -> Fragment(<<"!">>, <<"!">>)
    [] label = "(" -> Fragment(<<"(">>, <<"(">>)
    [] label = ")" -> Fragment(<<")">>, <<")">>)

\* fragments.map(...).join("")
RECURSIVE JoinFragments(_, _)
JoinFragments(fragments, field) ==
  IF fragments = <<>> THEN <<>>
  ELSE Head(fragments)[field] \o JoinFragments(Tail(fragments), field)

composeFromFragments(fragments) ==
  IF Len(fragments) = 0
  THEN [displayValue |-> <<"0">>, formula |-> <<"0">>]
  ELSE [displayValue |-> JoinFragments(fragments, "display"),
        formula |-> JoinFragments(fragments, "formula")]

fragmentsEqual(a, b) ==
  /\ Len(a) = Len(b)
  /\ \A index \in DOMAIN a :
       a[index].display = b[index].display /\ a[index].formula = b[index].formula

statesEqual(a, b) ==
  /\ a.displayValue = b.displayValue
  /\ a.formula = b.formula
  /\ a.history = b.history
  /\ a.error = b.error
  /\ fragmentsEqual(a.fragments, b.fragments)

\* updateWithFragments(fragments, { history, error }): the display and the
\* formula are composed, since no caller overrides them
updateWithFragments(fragments, history, error) ==
  [displayValue |-> composeFromFragments(fragments).displayValue,
   formula |-> composeFromFragments(fragments).formula,
   history |-> history, error |-> error, fragments |-> fragments]

\* a push that never cuts the stack
PushedUncut(stk, x) == Append(stk, x)
\* the last n elements: array.slice(-n)
Last(seq, n) == IF Len(seq) > n THEN SubSeq(seq, Len(seq) - n + 1, Len(seq)) ELSE seq
\* [...stack, x], cut to the last MAX_HISTORY
Pushed(stk, x) == Last(Append(stk, x), MAX_HISTORY)

\* the three pieces of React state after an event
Shown(st, undo, redo) == [state |-> st, undoStack |-> undo, redoStack |-> redo]

\* a changed state that is not recorded for undo
commitChangeRecordsNothing(previous, next, shouldRecord, undo, redo) ==
  IF statesEqual(previous, next) THEN Shown(previous, undo, redo)
  ELSE Shown(next, undo, redo)
\* commitChange(updater, options), next being updater(previous)
commitChange(previous, next, shouldRecord, undo, redo) ==
  IF statesEqual(previous, next) THEN Shown(previous, undo, redo)
  ELSE IF ~shouldRecord THEN Shown(next, undo, redo)
  ELSE Shown(next, Pushed(undo, previous), <<>>)

\* a stored value is kept as JSON.parse returns it: a member that is a string
\* or null here is a text or NoText, any other JSON value is [is |-> "other"];
\* displayValue, formula and fragments have the right type in every payload
\* that is considered
isCalculatorState(value) ==
  /\ value.is = "object"
  /\ value.history.is \in {"null", "string"}
  /\ value.error.is \in {"null", "string"}

\* what JSON.parse(JSON.stringify(st)) is for a CalculatorState
Json(st) == [is |-> "object"] @@ st
JsonAll(stk) == [index \in DOMAIN stk |-> Json(stk[index])]
\* the CalculatorState a validated stored value is used as
Parsed(value) == [f \in DOMAIN value \ {"is"} |-> value[f]]
\* stack.filter(isCalculatorState)
ParsedValid(stk) ==
  [index \in DOMAIN SelectSeq(stk, isCalculatorState) |->
     Parsed(SelectSeq(stk, isCalculatorState)[index])]

\* every member of both stacks is forgotten when the payload is written
persistStateOnly(nextState, nextUndo, nextRedo) ==
  Stored("json", Json(nextState), <<>>, <<>>)
persistState(nextState, nextUndo, nextRedo) ==
  Stored("json", Json(nextState), JsonAll(Last(nextUndo, MAX_HISTORY)),
         JsonAll(Last(nextRedo, MAX_HISTORY)))

undefined == [defined |-> FALSE]
loadPersistedState(raw) ==
  IF raw.kind # "json" THEN undefined
  ELSE IF ~isCalculatorState(raw.state) THEN undefined
  ELSE [defined |-> TRUE, state |-> Parsed(raw.state),
        undoStack |-> ParsedValid(raw.undoStack),
        redoStack |-> ParsedValid(raw.redoStack)]

\* the three useState initialisers: persisted?.state ?? DEFAULT_STATE, ...
Mounted(persisted) ==
  IF persisted.defined
  THEN Shown(persisted.state, persisted.undoStack, persisted.redoStack)
  ELSE Shown(DEFAULT_STATE, <<>>, <<>>)

StartsWith(s, prefix) ==
  Len(s) >= Len(prefix) /\ SubSeq(s, 1, Len(prefix)) = prefix
EndsWith(s, suffix) ==
  Len(s) >= Len(suffix) /\ SubSeq(s, Len(s) - Len(suffix) + 1, Len(s)) = suffix

\* an updater that goes on typing after a result whatever the key
AppendedNeverResets(previous, fragment) ==
  updateWithFragments(previous.fragments \o <<fragment>>, NoText, NoError)
\* the updater of handleAppend
Appended(previous, fragment) ==
  updateWithFragments(
    (IF (previous.history # NoText /\ Len(fragment.display) = 1
          /\ (isDigit(fragment.display[1]) \/ fragment.display[1] = "."))
        \/ Len(previous.fragments) = 0
     THEN <<>> ELSE previous.fragments) \o <<fragment>>,
    NoText, NoError)

\* the updater of handleBackspace
Backspaced(previous) ==
  IF Len(previous.fragments) <= 1 THEN DEFAULT_STATE
  ELSE updateWithFragments(SubSeq(previous.fragments, 1, Len(previous.fragments) - 1),
                           NoText, NoError)

\* an updater that changes the sign through the displayValue and formula
\* overrides and leaves the fragments as they were
ToggledSignInPlace(previous) ==
  IF previous.displayValue = <<"0">> THEN previous
  ELSE IF StartsWith(previous.displayValue, <<"-">>)
  THEN [previous EXCEPT
          !.displayValue = Slice(previous.displayValue, 2, Len(previous.displayValue) + 1),
          !.formula = IF StartsWith(previous.formula, <<"-", "(">>)
                         /\ EndsWith(previous.formula, <<")">>)
                      THEN SubSeq(previous.formula, 3, Len(previous.formula) - 1)
                      ELSE IF StartsWith(previous.formula, <<"-">>)
                      THEN Slice(previous.formula, 2, Len(previous.formula) + 1)
                      ELSE previous.formula,
          !.history = NoText, !.error = NoError]
  ELSE [previous EXCEPT
          !.displayValue = <<"-">> \o previous.displayValue,
          !.formula = IF StartsWith(previous.formula, <<"-">>) THEN previous.formula
                      ELSE <<"-", "(">> \o previous.formula \o <<")">>,
          !.history = NoText, !.error = NoError]
\* the updater of handleToggleSign
ToggledSign(previous) ==
  IF previous.displayValue = <<"0">> THEN previous
  ELSE IF StartsWith(previous.displayValue, <<"-">>)
  THEN updateWithFragments(
         <<Fragment(Slice(previous.displayValue, 2, Len(previous.displayValue) + 1),
                    IF StartsWith(previous.formula, <<"-", "(">>)
                       /\ EndsWith(previous.formula, <<")">>)
                    THEN SubSeq(previous.formula, 3, Len(previous.formula) - 1)
                    ELSE IF StartsWith(previous.formula, <<"-">>)
                    THEN Slice(previous.formula, 2, Len(previous.formula) + 1)
                    ELSE previous.formula)>>,
         NoText, NoError)
  ELSE updateWithFragments(
         <<Fragment(<<"-">> \o previous.displayValue,
                    IF StartsWith(previous.formula, <<"-">>) THEN previous.formula
                    ELSE <<"-", "(">> \o previous.formula \o <<")">>)>>,
         NoText, NoError)

\* an updater that keeps quiet about a failed evaluation
EqualledSilent(previous, r) ==
  IF ~r.ok \/ ~IsFinite(r.v) THEN previous
  ELSE updateWithFragments(<<Fragment(toString(r.v), toString(r.v))>>,
                           Text(previous.displayValue), NoError)
\* the updater of handleEquals, r being evaluate(previous.formula)
Equalled(previous, r) ==
  IF ~r.ok THEN [previous EXCEPT !.error = Message(r.err)]
  ELSE IF ~IsFinite(r.v)
  THEN [previous EXCEPT !.error = Message("Result is not finite")]
  ELSE updateWithFragments(<<Fragment(toString(r.v), toString(r.v))>>,
                           Text(previous.displayValue), NoError)

\* the state after undo that keeps what was shown out of the redo stack
UndoneForgetful(st, undo, redo) ==
  IF Len(undo) = 0 THEN Shown(st, undo, redo)
  ELSE Shown(undo[Len(undo)], SubSeq(undo, 1, Len(undo) - 1), redo)
\* handleUndo with the rendered state st
Undone(st, undo, redo) ==
  IF Len(undo) = 0 THEN Shown(st, undo, redo)
  ELSE Shown(commitChange(st, undo[Len(undo)], FALSE, undo, redo).state,
             SubSeq(undo, 1, Len(undo) - 1), Pushed(redo, st))

\* handleRedo with the rendered state st
Redone(st, undo, redo) ==
  IF Len(redo) = 0 THEN Shown(st, undo, redo)
  ELSE Shown(commitChange(st, redo[Len(redo)], FALSE, undo, redo).state,
             Pushed(undo, st), SubSeq(redo, 1, Len(redo) - 1))

\* what the engine leaves behind between two calls from the calculator
idle == <<expr, angleMode, tokens, tks, pos, out, stack, vals, arg, result, calls>>

\* the render after an event and the effect that persists what it shows
Render(shown) ==
  \E next \in {shown} :
    /\ state' = next.state
    /\ undoStack' = next.undoStack
    /\ redoStack' = next.redoStack
    /\ storage' = IF next = Shown(state, undoStack, redoStack) THEN storage
                  ELSE persistState(next.state, next.undoStack, next.redoStack)
    /\ presses' = presses + 1
    /\ pc' = "ui"
    /\ UNCHANGED <<keys, idle>>

AppendKeys == {"1", "0", "+", "U+00F7"}
AllKeys == AppendKeys \cup {"AC", "backspace", "toggle-sign", "=", "undo", "redo", "reload"}
RepeatKeys == {"1", "undo", "redo", "reload"}

MaxPresses == 5
MaxRepeat == 52
\* the user goes on pressing keys
Pressing ==
  /\ pc \in {"ui", "loaded"}
  /\ presses < (IF keys = RepeatKeys THEN MaxRepeat ELSE MaxPresses)

handleAppend(label) ==
  /\ Pressing /\ label \in keys
  /\ Render(commitChange(state, Appended(state, KeyFragment(label)), TRUE,
                         undoStack, redoStack))

handleClear ==
  /\ Pressing /\ "AC" \in keys
  /\ Render(commitChange(state, DEFAULT_STATE, TRUE, undoStack, redoStack))

handleBackspace ==
  /\ Pressing /\ "backspace" \in keys
  /\ Render(commitChange(state, Backspaced(state), TRUE, undoStack, redoStack))

handleToggleSign ==
  /\ Pressing /\ "toggle-sign" \in keys
  /\ Render(commitChange(state, ToggledSign(state), TRUE, undoStack, redoStack))

handleEquals ==
  /\ Pressing /\ "=" \in keys
  /\ \E r \in {evaluate(state.formula, "DEG")} :
       /\ r.ok /\ IsFinite(r.v) => Printable(r.v)
       /\ Render(commitChange(state, Equalled(state, r), TRUE, undoStack, redoStack))

handleUndo ==
  /\ Pressing /\ "undo" \in keys
  /\ Render(Undone(state, undoStack, redoStack))

handleRedo ==
  /\ Pressing /\ "redo" \in keys
  /\ Render(Redone(state, undoStack, redoStack))

\* the first render of the component and its effect
Mount ==
  /\ pc = "unmounted"
  /\ \E persisted \in {loadPersistedState(storage)} :
       /\ pc' = IF persisted.defined THEN "loaded" ELSE "ui"
       /\ state' = Mounted(persisted).state
       /\ undoStack' = Mounted(persisted).undoStack
       /\ redoStack' = Mounted(persisted).redoStack
       /\ storage' = persistState(Mounted(persisted).state, Mounted(persisted).undoStack,
                                  Mounted(persisted).redoStack)
  /\ UNCHANGED <<presses, keys, idle>>

\* the page is loaded again: the component is mounted from the stored item
Reload ==
  /\ Pressing /\ "reload" \in keys
  /\ \E persisted \in {loadPersistedState(storage)} :
       /\ pc' = IF persisted.defined THEN "loaded" ELSE "ui"
       /\ state' = Mounted(persisted).state
       /\ undoStack' = Mounted(persisted).undoStack
       /\ redoStack' = Mounted(persisted).redoStack
       /\ storage' = persistState(Mounted(persisted).state, Mounted(persisted).undoStack,
                                  Mounted(persisted).redoStack)
  /\ presses' = presses + 1
  /\ UNCHANGED <<keys, idle>>

\* the items the page may find stored: none, a text JSON.parse rejects, a
\* value whose state fails validation
NotJson == Stored("text", Json(DEFAULT_STATE), <<>>, <<>>)
InvalidState ==
  Stored("json", Json([DEFAULT_STATE EXCEPT !.history = [is |-> "other", s |-> <<>>]]),
         <<>>, <<>>)

InitCalculator ==
  /\ expr = <<>> /\ angleMode = "DEG"
  /\ pc = "unmounted"
  /\ tokens = <<>> /\ tks = <<>> /\ pos = 1
  /\ out = <<>> /\ stack = <<>> /\ vals = <<>>
  /\ arg = NaN
  /\ result = None
  /\ calls = <<>>
  /\ state = DEFAULT_STATE /\ undoStack = <<>> /\ redoStack = <<>>
  /\ presses = 0
  /\ \/ keys = AllKeys /\ storage \in {Absent, NotJson, InvalidState}
     \/ keys = RepeatKeys /\ storage = Absent

NextCalculator ==
  \/ Mount
  \/ \E label \in AppendKeys : handleAppend(label)
  \/ handleClear
  \/ handleBackspace
  \/ handleToggleSign
  \/ handleEquals
  \/ handleUndo
  \/ handleRedo
  \/ Reload

SpecCalculator == InitCalculator /\ [][NextCalculator]_vars

(* --------------------- reference reading of arithmetic ---------------- *)
\* The value of an arithmetic text by the grammar the precedence table
\* stands for, read with no operator stack:
\*   sum     ::= product (("+" | "-") product)*      left to right
\*   product ::= power (("*" | "/") power)*          left to right
\*   power   ::= unary ("^" power)?                  right to left
\*   unary   ::= "-" unary | literal | "(" sum ")"
RefFail == [ok |-> FALSE, v |-> NaN, pos |-> 0]
RefOk(v, p) == [ok |-> TRUE, v |-> v, pos |-> p]
RefApply(op, a, b) ==
  CASE op = "+" -> Add(a, b) [] op = "-" -> Sub(a, b) [] op = "*" -> Mul(a, b)
    [] op = "/" -> Div(a, b) [] op = "^" -> Pow(a, b)

RECURSIVE RefSum(_, _), RefSumRest(_, _, _), RefProduct(_, _),
          RefProductRest(_, _, _), RefPower(_, _), RefUnary(_, _)
RefUnary(s, i) ==
  IF At(s, i) = "-"
  THEN LET r == RefUnary(s, i + 1) IN IF r.ok THEN RefOk(Neg(r.v), r.pos) ELSE RefFail
  ELSE IF isDigit(At(s, i))
  THEN LET j == SkipDigits(s, i) IN RefOk(DigitsValue(s, i, j, Num(0)), j)
  ELSE IF At(s, i) = "("
  THEN LET r == RefSum(s, i + 1)
       IN IF r.ok /\ At(s, r.pos) = ")" THEN RefOk(r.v, r.pos + 1) ELSE RefFail
  ELSE RefFail
RefPower(s, i) ==
  LET b == RefUnary(s, i)
  IN IF b.ok /\ At(s, b.pos) = "^"
     THEN LET e == RefPower(s, b.pos + 1)
          IN IF e.ok THEN RefOk(Pow(b.v, e.v), e.pos) ELSE RefFail
     ELSE b
RefProductRest(s, acc, i) ==
  IF At(s, i) \in {"*", "/"}
  THEN LET r == RefPower(s, i + 1)
       IN IF r.ok THEN RefProductRest(s, RefApply(At(s, i), acc, r.v), r.pos)
          ELSE RefFail
  ELSE RefOk(acc, i)
RefProduct(s, i) ==
  LET l == RefPower(s, i) IN IF l.ok THEN RefProductRest(s, l.v, l.pos) ELSE RefFail
RefSumRest(s, acc, i) ==
  IF At(s, i) \in {"+", "-"}
  THEN LET r == RefProduct(s, i + 1)
       IN IF r.ok THEN RefSumRest(s, RefApply(At(s, i), acc, r.v), r.pos)
          ELSE RefFail
  ELSE RefOk(acc, i)
RefSum(s, i) ==
  LET l == RefProduct(s, i) IN IF l.ok THEN RefSumRest(s, l.v, l.pos) ELSE RefFail

WellFormed(s) == LET r == RefSum(s, 1) IN r.ok /\ r.pos = Len(s) + 1
RefValue(s) == RefSum(s, 1).v

Finished == pc \in {"done", "error"}

(* ------------------------------- claims ------------------------------- *)
\* C3: for every well-formed expression over literals, + - * / ^, unary
\* minus and parentheses, evaluate returns the value of the reference
\* reading: unary minus binds tighter than ^, ^ tighter than * and /, these
\* tighter than + and -; ^ and unary minus group to the right, the others
\* to the left; a OP b has a as its left operand.
C3_Precedence ==
  (Finished /\ WellFormed(expr)) => result = Ok(RefValue(expr))
\* (2+3)*2 = 10 has been returned
C3_Witness ==
  /\ pc = "done"
  /\ expr = <<"(", "2", "+", "3", ")", "*", "2">>
  /\ result = Ok(Num(10))

\* C1: evaluate of a call name(args) of a function of the tables, the
\* arguments well-formed, does not raise and returns the function applied to
\* the values of the arguments.
C1_CallReturnsFunctionValue ==
  Finished =>
    /\ \A n \in Fn1Keys, a \in Args :
         expr = Call1(n, a) => result = Ok(fn1(Chars(n), RefValue(a), angleMode))
    /\ \A n \in Fn2Keys, a \in Formed({"2", "3"}, 0), b \in Args :
         expr = Call2(n, a, b) => result = Ok(fn2(Chars(n), RefValue(a), RefValue(b)))

\* a literal: digits, with or without a point and further digits
IsLiteral(s) ==
  /\ s # <<>>
  /\ isDigit(s[1]) \/ (s[1] = "." /\ isDigit(At(s, 2)))
  /\ LET j1 == SkipDigits(s, 1)
         j2 == IF At(s, j1) = "." THEN SkipDigits(s, j1 + 1) ELSE j1
     IN j2 = Len(s) + 1

\* C2: evaluate of a unary minus directly followed by a literal and a
\* factorial, such as -1!, raises an error and never returns a number.
C2_MinusLiteralFactorialRaises ==
  (Finished /\ Len(expr) >= 3 /\ expr[1] = "-" /\ expr[Len(expr)] = "!"
     /\ IsLiteral(SubSeq(expr, 2, Len(expr) - 1)))
    => ~result.ok

\* 1 * 2 * ... * n
RECURSIVE Product(_)
Product(n) == IF n = 0 THEN 1 ELSE n * Product(n - 1)

\* what a pending "2 op" makes of the value v of what follows it
Combine(p, v) == IF p = <<>> THEN v ELSE RefApply(p[2], Num(2), v)

\* C4: for an operand X (a literal or an expression in parentheses) of value
\* v, X% is v/100 and, for a whole v in 0..170, X! does not raise and is
\* 1*2*...*v (compared exactly up to 12!, the largest the model writes
\* out); a pending binary operator is applied after the postfix operator.
C4_PostfixBindsToOperand ==
  Finished =>
    \A p \in Pending, x \in PostfixOperands :
      LET v == evaluate(x, angleMode).v
      IN /\ (expr = p \o x \o <<"%">> /\ evaluate(x, angleMode).ok)
              => result = Ok(Combine(p, Div(v, Num(100))))
         /\ (expr = p \o x \o <<"!">> /\ evaluate(x, angleMode).ok
               /\ v.k = "q" /\ v.d = 1 /\ v.n <= 170 /\ (v.s = 1 \/ v.n = 0))
              => /\ result.ok
                 /\ v.n <= 12 => result = Ok(Combine(p, Num(Product(v.n))))
\* 2+(1+3)! = 26 has been returned
C4_Witness ==
  /\ pc = "done"
  /\ expr = <<"2", "+", "(", "1", "+", "3", ")", "!">>
  /\ result = Ok(Num(26))

HasLeftParen(stk) == \E i \in DOMAIN stk : stk[i].type = "lparen"
\* the depth of open parentheses after the characters i.. of s, from depth d;
\* -1 once a right parenthesis has no partner
RECURSIVE ParenDepth(_, _, _)
ParenDepth(s, i, d) ==
  IF d < 0 \/ i > Len(s) THEN d
  ELSE ParenDepth(s, i + 1,
                  CASE s[i] = "(" -> d + 1 [] s[i] = ")" -> d - 1 [] OTHER -> d)
Balanced(s) == ParenDepth(s, 1, 0) = 0
ThrowsMismatched == pc' = "error" /\ result' = Err("Mismatched parentheses")

\* C5: toRPN throws the mismatched-parentheses error when it processes a
\* right parenthesis with no left parenthesis on the operator stack, and a
\* left parenthesis still on the stack at the end of the input is never
\* dropped without that error; so evaluate returns no number for a text
\* whose parentheses are unbalanced.
C5_MismatchedParens ==
  /\ [][/\ (pc = "rpn" /\ pos <= Len(tks) /\ tks[pos].type = "rparen"
              /\ ~HasLeftParen(stack)) => ThrowsMismatched
        /\ (pc = "flush" /\ HasLeftParen(stack))
             => (ThrowsMismatched \/ (pc' = "flush" /\ HasLeftParen(stack')))]_vars
  /\ [](pc \in {"eval", "done"} => Balanced(expr))
\* 2) has thrown at its right parenthesis
C5_Witness ==
  /\ pc = "error"
  /\ expr = <<"2", ")">>
  /\ tks[pos].type = "rparen"
  /\ result = Err("Mismatched parentheses")

\* the values the claim has an operation need
Needs(t) ==
  CASE t.type \in {"plus", "minus", "mul", "div", "pow"} -> 2
    [] t.type \in {"u-", "percent", "bang"} -> 1
    [] t.type = "id" /\ Named(Fn1Keys, t.id) -> 1
    [] t.type = "id" /\ Named(Fn2Keys, t.id) -> 2
    [] OTHER -> 0

\* C6: in the postfix evaluation a binary operator, a unary minus, a one- or
\* two-argument function, a percent or a factorial that finds fewer values
\* on the value stack than it needs raises the arity error.
C6_ArityError ==
  [][(pc = "eval" /\ pos <= Len(out) /\ Len(vals) < Needs(out[pos]))
       => (pc' = "error" /\ result' = Err("Arity error"))]_vars
\* a binary operator has found one value only: 2+ has thrown at its plus
C6_Witness ==
  /\ pc = "error"
  /\ expr = <<"2", "+">>
  /\ pos = 2 /\ out[pos].type = "plus"
  /\ Len(vals) = 1
  /\ result = Err("Arity error")

AllBlank(s) == \A i \in DOMAIN s : s[i] \in {" ", "\t"}

\* C7: evaluate returns a number only when exactly one value is on the value
\* stack after the whole postfix sequence; with none (an empty or blank
\* text) or more than one (2 3) it raises the invalid-expression error.
C7_OneValueRemains ==
  /\ [][(pc = "eval" /\ pos > Len(out))
          => IF Len(vals) = 1
             THEN pc' = "done" /\ result' = Ok(vals[1])
             ELSE pc' = "error" /\ result' = Err("Invalid expression")]_vars
  /\ [](pc = "done" => (Len(vals) = 1 /\ pos > Len(out) /\ result = Ok(vals[1])))
  /\ []((Finished /\ AllBlank(expr)) => result = Err("Invalid expression"))
\* 1 1 (two literals with a blank between) has thrown with two values left
C7_Witness ==
  /\ pc = "error"
  /\ expr = <<"1", " ", "1">>
  /\ Len(vals) = 2 /\ pos > Len(out)
  /\ result = Err("Invalid expression")

ValueEnding(t) == t.type \in {"num", "rparen", "bang", "percent", "id"}
ValueStarting(t) == t.type \in {"num", "id", "lparen"}

\* C8 as claimed: the tokens tokenize returns never hold a value-ending token
\* (number, right parenthesis, factorial, percent, identifier) directly
\* followed by a value-starting token (number, identifier, left parenthesis).
C8_NoAdjacentValues ==
  \A k \in 1..(Len(tokens) - 1) :
    ~(ValueEnding(tokens[k]) /\ ValueStarting(tokens[k + 1]))
\* C8 as amended: the only value-ending token directly followed by a
\* value-starting token in what tokenize returns is a number directly
\* followed by a number (2 3, 1.2.3), which is left in place; every other
\* such pair has a mul between.
C8_AdjacentValuesRepaired ==
  \A k \in 1..(Len(tokens) - 1) :
    (ValueEnding(tokens[k]) /\ ValueStarting(tokens[k + 1]))
      => (tokens[k].type = "num" /\ tokens[k + 1].type = "num")
\* 1e was tokenized to a number, an inserted mul and the identifier e
C8_Witness ==
  /\ pc = "rpn"
  /\ expr = <<"1", "e">>
  /\ Len(tokens) = 3
  /\ tokens[1].type = "num" /\ tokens[2].type = "mul" /\ tokens[3].type = "id"

KnownNames == {Chars(n) : n \in Fn1Keys \cup Fn2Keys \cup {"pi", "e"}}

\* C10: when the postfix evaluation reaches an identifier whose name is not
\* pi, e or one of the fourteen function names, evaluate raises the
\* unknown-identifier error naming it, whatever is on the value stack.
C10_UnknownIdentifierRaises ==
  [][(pc = "eval" /\ pos <= Len(out) /\ out[pos].type = "id"
        /\ out[pos].id \notin KnownNames)
       => (pc' = "error" /\ result' = Err("Unknown id: " \o Join(out[pos].id)))]_vars

SameInput(c, e, m) == c.expr = e /\ c.angleMode = m

SameNumber(a, b) == a = b \/ (IsZero(a) /\ IsZero(b))

\* C12: when the decimal string of a finite result r of evaluate is handed
\* to evaluate, the call returns r (0 and -0 being the same number).
C12_RoundTrip ==
  (Finished /\ calls # <<>> /\ expr = toString(calls[Len(calls)].result.v))
    => (result.ok /\ SameNumber(result.v, calls[Len(calls)].result.v))
\* -0.00000015 was returned, written -1.5e-7 and returned again
C12_Witness ==
  /\ pc = "done"
  /\ Len(calls) = 1
  /\ calls[1].expr = <<"-", "0", ".", "0", "0", "0", "0", "0", "0", "1", "5">>
  /\ expr = <<"-", "1", ".", "5", "e", "-", "7">>
  /\ result = calls[1].result
  /\ result = Ok(Q(-1, 3, 20000000))

\* the undo control and the redo control: canUndo, canRedo
canUndo == Len(undoStack) > 0
canRedo == Len(redoStack) > 0
AnAppend == \E label \in AppendKeys : handleAppend(label)

\* C13: undo history is created only by '=': while only keys that append
\* have been pressed on a fresh calculator, the undo control and the redo
\* control stay disabled
C13_AppendsRecordNothing ==
  [][(~canUndo /\ ~canRedo /\ AnAppend) => (~canUndo' /\ ~canRedo')]_vars

\* C14: undo followed at once by redo is the identity: whenever undo acts on
\* a non-empty undo stack, a redo of what it leaves gives back the state, the
\* undo stack and the redo stack there were before; and the undo of a '='
\* shows the expression that was evaluated
C14_UndoThenRedo ==
  [][(canUndo /\ handleUndo) =>
       /\ Redone(state', undoStack', redoStack') = Shown(state, undoStack, redoStack)
       /\ (state.history # NoText /\ state.error = NoError)
            => state'.displayValue = state.history.s]_vars
\* 1 + 1 = has been undone: the expression is shown, the result waits in redo
C14_Witness ==
  /\ state.displayValue = <<"1", "+", "1">>
  /\ canRedo
  /\ redoStack[Len(redoStack)].displayValue = <<"2">>
  /\ redoStack[Len(redoStack)].history = Text(<<"1", "+", "1">>)

\* the stored item is one that loadPersistedState gives up on: there is none,
\* JSON.parse rejects it, or its state fails validation
Unusable(raw) == raw.kind # "json" \/ ~isCalculatorState(raw.state)

\* C15: what persistState wrote is read back on reload as the same state,
\* the same undo stack and the same redo stack, so an undo after the reload
\* restores what it would have restored before; a stored item that is
\* missing, unparsable or whose state fails validation gives the default
\* state with empty stacks
C15_PersistenceRoundTrip ==
  [][/\ Reload =>
          /\ Shown(state', undoStack', redoStack') = Shown(state, undoStack, redoStack)
          /\ Undone(state', undoStack', redoStack') = Undone(state, undoStack, redoStack)
     /\ (Unusable(storage) /\ (Mount \/ Reload)) =>
          Shown(state', undoStack', redoStack') = Shown(DEFAULT_STATE, <<>>, <<>>)]_vars
\* the page was loaded again after 1 = and an undo, and nothing was pressed
\* since: both stacks came back
C15_Witness ==
  /\ pc = "loaded"
  /\ state.displayValue = <<"1">>
  /\ undoStack = <<DEFAULT_STATE>>
  /\ canRedo /\ redoStack[1].history = Text(<<"1">>)

Constant(c) == IF c = "pi" THEN PI ELSE E

\* C16: a postfix percent or factorial applies to the value written just
\* before it, a constant included: toRPN puts the postfix token after the
\* constant, and evaluate of pi% and of e% returns the hundredth of the
\* constant, also as the right operand of a pending binary operator
C16_PercentOfConstant ==
  Finished =>
    \A c \in {"pi", "e"} :
      /\ \A q \in {"!", "%"} :
           expr = Chars(c) \o Key(q) =>
             toRPN(tokenize(expr).toks).out = <<IdTok(Chars(c)), Tok(ops[q])>>
      /\ \A p \in Pending :
           expr = p \o Chars(c) \o <<"%">> =>
             result = Ok(Combine(p, Div(Constant(c), Num(100))))

\* toRPN has been entered with the tokens of the text
InToRPN == pc \in {"rpn", "flush", "eval", "done"} \/ (pc = "error" /\ tokens # <<>>)

\* C17: toRPN turns the minus at index i of the sequence it receives into a
\* unary minus if and only if i is the first index or the token before it in
\* that sequence is a binary operator, a minus, a left parenthesis or a
\* comma; a minus after a number, an identifier, a right parenthesis, a
\* percent or a factorial stays binary, and no other token is changed
C17_UnaryMinus ==
  InToRPN =>
    /\ Len(tks) = Len(tokens)
    /\ \A i \in 1..Len(tokens) :
         IF tokens[i].type # "minus" THEN tks[i] = tokens[i]
         ELSE /\ tks[i].type \in {"u-", "minus"}
              /\ tks[i].type = "u-" <=>
                   (i = 1 \/ tokens[i - 1].type \in
                      {"plus", "minus", "mul", "div", "pow", "lparen", "comma"})
              /\ (i > 1 /\ tokens[i - 1].type \in
                      {"num", "id", "rparen", "percent", "bang"})
                   => tks[i] = tokens[i]
\* in --2 both are unary and the call returns 2
C17_Witness ==
  /\ expr = <<"-", "-", "2">>
  /\ pc = "done"
  /\ tks = <<Tok("u-"), Tok("u-"), NumTok(Num(2))>>
  /\ result = Ok(Num(2))

\* the raw tokens of the first loop of tokenize, when it does not throw
Raw == Scan(expr, 1, <<>>)
\* tokenize has just returned to evaluate, which enters toRPN
Tokenized == pc = "rpn" /\ pos = 1

\* toks is raw with one mul put between raw[k] and raw[k + 1] wherever
\* Rule holds of the pair, and nothing else put in, taken out or moved
InsertedWhere(Rule(_, _), raw, toks) ==
  LET before(k) == Cardinality({j \in 1..(k - 1) : Rule(raw[j], raw[j + 1])})
  IN /\ Len(toks) = Len(raw) + before(Len(raw))
     /\ \A k \in 1..Len(raw) : toks[k + before(k)] = raw[k]
     /\ \A k \in 1..(Len(raw) - 1) :
          Rule(raw[k], raw[k + 1]) => toks[k + before(k) + 1] = Tok("mul")

TwoRules(t, next) ==
  \/ ValueEnding(t) /\ next.type \in {"lparen", "id"}
  \/ t.type = "id" /\ next.type = "num"
ThreeRules(t, next) ==
  \/ ValueEnding(t) /\ next.type \in {"lparen", "id"}
  \/ t.type \in {"rparen", "bang", "percent"} /\ next.type = "num"
  \/ t.type = "id" /\ next.type = "num"

\* C18 as stated: tokenize puts exactly one mul between two adjacent raw
\* tokens t, next if and only if t ends a value and next is a left
\* parenthesis or an identifier, or t is an identifier and next a number;
\* the raw tokens are kept in order, unchanged
C18_InsertsByTwoRules ==
  Tokenized => \A raw \in {Raw} : InsertedWhere(TwoRules, raw.toks, tokens)

\* C18 amended: ... or t is a right parenthesis, a factorial or a percent
\* and next is a number
C18_InsertsByThreeRules ==
  Tokenized => \A raw \in {Raw} : InsertedWhere(ThreeRules, raw.toks, tokens)
\* 1!1 is read as 1! * 1
C18_Witness ==
  /\ Tokenized
  /\ expr = <<"1", "!", "1">>
  /\ tokens = <<NumTok(Num(1)), Tok("bang"), Tok("mul"), NumTok(Num(1))>>

\* the index of the topmost left parenthesis of the stack, 0 when it has none
LastLeftParen(stk) ==
  IF \E k \in 1..Len(stk) : stk[k].type = "lparen"
  THEN CHOOSE k \in 1..Len(stk) :
         /\ stk[k].type = "lparen"
         /\ \A j \in (k + 1)..Len(stk) : stk[j].type # "lparen"
  ELSE 0
\* the entries of the stack above index m, the top first
PoppedAbove(stk, m) == [i \in 1..(Len(stk) - m) |-> stk[Len(stk) + 1 - i]]
\* the left parentheses open before index i of the tokens
OpenBefore(toks, i) ==
  Cardinality({j \in 1..(i - 1) : toks[j].type = "lparen"})
    - Cardinality({j \in 1..(i - 1) : toks[j].type = "rparen"})
\* the comma at index i is outside every parenthesis, and no right
\* parenthesis before it lacks its left one
FirstFailureIsComma(toks, i) ==
  /\ toks[i].type = "comma"
  /\ OpenBefore(toks, i) = 0
  /\ \A j \in 1..(i - 1) : toks[j].type = "rparen" => OpenBefore(toks, j) > 0

\* C19: at a comma toRPN pops the operator stack to the output down to the
\* topmost left parenthesis, which stays on the stack, and throws "Comma not
\* inside function" exactly when the stack holds no left parenthesis; a call
\* whose first failure is such a comma ends with that error, whatever
\* parenthesis error the rest of the text holds
C19_Comma ==
  /\ [][(pc = "rpn" /\ pos <= Len(tks) /\ tks[pos].type = "comma") =>
          IF LastLeftParen(stack) = 0
          THEN pc' = "error" /\ result' = Err("Comma not inside function")
          ELSE /\ pc' = "rpn" /\ pos' = pos + 1
               /\ stack' = SubSeq(stack, 1, LastLeftParen(stack))
               /\ out' = out \o PoppedAbove(stack, LastLeftParen(stack))]_vars
  /\ [](Finished /\ (\E i \in 1..Len(tks) : FirstFailureIsComma(tks, i))
          => result = Err("Comma not inside function"))
\* in (x, the comma sent x to the output and left the parenthesis, which
\* the final loop then rejects
C19_Witness ==
  /\ expr = <<"(", "x", ",">>
  /\ pc = "error" /\ result = Err("Mismatched parentheses")
  /\ stack = <<Tok("lparen")>>
  /\ out = <<IdTok(<<"x">>)>>

\* the token kind of a single character, the multiply and divide glyphs
\* (U+00D7, U+00F7) included; "" for a character that has none
KindOf(c) ==
  CASE c = "+" -> "plus" [] c = "-" -> "minus" [] c = "^" -> "pow"
    [] c \in {"*", "U+00D7"} -> "mul" [] c \in {"/", "U+00F7"} -> "div"
    [] c = "(" -> "lparen" [] c = ")" -> "rparen" [] c = "," -> "comma"
    [] c = "%" -> "percent" [] c = "!" -> "bang" [] OTHER -> ""
Blank(c) == c \in {" ", "\t"}
\* the characters of s that are not blank, in order
NonBlank(s) == SelectSeq(s, LAMBDA c : ~Blank(c))
\* no character of s starts a number or an identifier
NoWord(s) == \A i \in 1..Len(s) : ~isDigit(s[i]) /\ ~isAlpha(s[i])

\* C20: on a text with no number and no identifier, the first loop of
\* tokenize gives one token per character that is not a blank or a tab:
\* the kind of + - * / ^ ( ) , % !, mul for the multiply glyph, div for the
\* divide glyph; it throws Unexpected, naming the character, at the first
\* character that is none of these
C20_SingleCharacters ==
  (pc # "start" /\ NoWord(expr)) =>
    IF \A i \in 1..Len(NonBlank(expr)) : KindOf(NonBlank(expr)[i]) # ""
    THEN /\ Raw.ok
         /\ Raw.toks = [i \in 1..Len(NonBlank(expr)) |-> Tok(KindOf(NonBlank(expr)[i]))]
    ELSE \E i \in 1..Len(NonBlank(expr)) :
           /\ KindOf(NonBlank(expr)[i]) = ""
           /\ \A j \in 1..(i - 1) : KindOf(NonBlank(expr)[j]) # ""
           /\ pc = "error"
           /\ result = Err("Unexpected '" \o NonBlank(expr)[i] \o "'")

\* C21: when '=' is pressed and evaluate throws, or returns a number that is
\* not finite (1/0, 0/0), the next state keeps displayValue, formula,
\* history and fragments and has the message as its error: that of the
\* Error thrown, or "Result is not finite"; no result is shown
C21_EqualsKeepsExpressionOnError ==
  [][handleEquals =>
       \A r \in {evaluate(state.formula, "DEG")} :
         (~r.ok \/ ~IsFinite(r.v)) =>
           /\ state'.displayValue = state.displayValue
           /\ state'.formula = state.formula
           /\ state'.history = state.history
           /\ state'.fragments = state.fragments
           /\ state'.error =
                Message(IF r.ok THEN "Result is not finite" ELSE r.err)]_vars
\* 1 divided by 0 was evaluated: the expression stays, with the message
C21_Witness ==
  /\ state.displayValue = <<"1", "U+00F7", "0">>
  /\ state.formula = <<"1", "/", "0">>
  /\ state.error = Message("Result is not finite")
  /\ Len(state.fragments) = 3

\* a key other than undo and redo is handled
Recording ==
  AnAppend \/ handleClear \/ handleBackspace \/ handleToggleSign \/ handleEquals

C23_HistoryBounded ==
  /\ [](/\ Len(undoStack) <= MAX_HISTORY
        /\ Len(redoStack) <= MAX_HISTORY
        /\ Len(undoStack) + Len(redoStack) <= MAX_HISTORY)
  /\ [][(Len(undoStack) = MAX_HISTORY /\ state' # state /\ Recording) =>
          undoStack' = Tail(undoStack) \o <<state>>]_vars
\* the 51st recorded change: the default state, the oldest entry, is gone
C23_Witness ==
  /\ presses = MAX_HISTORY + 1
  /\ Len(undoStack) = MAX_HISTORY
  /\ undoStack[1] # DEFAULT_STATE
  /\ Len(state.fragments) = MAX_HISTORY + 1

\* what a state shows is what its fragments compose
Composed(st) ==
  \A composed \in {composeFromFragments(st.fragments)} :
    /\ st.displayValue = composed.displayValue
    /\ st.formula = composed.formula
\* C24: in the state shown and in every state kept on the undo and redo
\* stacks, displayValue is the concatenation of the display parts of the
\* fragments and formula the concatenation of their formula parts, both "0"
\* when there is no fragment; the formula '=' evaluates is that composition
C24_ComposedFromFragments ==
  /\ Composed(state)
  /\ \A i \in DOMAIN undoStack : Composed(undoStack[i])
  /\ \A i \in DOMAIN redoStack : Composed(redoStack[i])
\* 1 + followed by toggle-sign and undo: two fragments shown again, the
\* one-fragment negated expression on the redo stack
C24_Witness ==
  /\ presses = 4
  /\ state.displayValue = <<"1", "+">> /\ Len(state.fragments) = 2
  /\ Len(redoStack) = 1
  /\ redoStack[1].formula = <<"-", "(", "1", "+", ")">>
  /\ redoStack[1].fragments = <<Fragment(<<"-", "1", "+">>, <<"-", "(", "1", "+", ")">>)>>

\* C25: a toggle-sign on a state that does not show "0" and whose formula
\* evaluates to v leaves a formula that evaluates to -v, and a second
\* toggle-sign brings back the displayValue and the formula it started from
C25_ToggleSignNegates ==
  [][(state.displayValue # <<"0">> /\ handleToggleSign) =>
       \A r \in {evaluate(state.formula, "DEG")} :
         r.ok =>
           /\ \A negated \in {evaluate(state'.formula, "DEG")} :
                negated.ok /\ SameNumber(negated.v, Neg(r.v))
           /\ \A again \in {ToggledSign(state')} :
                /\ again.displayValue = state.displayValue
                /\ again.formula = state.formula]_vars

\* the keys that start a new expression after a result
DigitOrDot == {"0", "1", "2", "3", "4", "5", "6", "7", "8", "9", "."}
\* C26: a key append on a state that shows a result (history not null) with
\* a key that is one digit or '.' leaves that key's fragment alone; any
\* other append adds the key's fragment after the existing ones; the state
\* after an append has history = null and error = null
C26_AppendAfterResult ==
  [][\A label \in AppendKeys :
       handleAppend(label) =>
         /\ state'.fragments =
              IF state.history # NoText /\ label \in DigitOrDot
              THEN <<KeyFragment(label)>>
              ELSE state.fragments \o <<KeyFragment(label)>>
         /\ state'.history = NoText
         /\ state'.error = NoError]_vars
\* 1 + 1 = and then the key 1: the result 2 is on the undo stack and the
\* new expression is the key alone
C26_Witness ==
  /\ presses = 5
  /\ state.fragments = <<KeyFragment("1")>>
  /\ state.history = NoText
  /\ Top(undoStack).history = Text(<<"1", "+", "1">>)
  /\ Top(undoStack).displayValue = <<"2">>

====
